---- MODULE Spec2Model ----
(***************************************************************************)
(* WARPoxy: the rotation state machine of the tunnel pool.                 *)
(*                                                                         *)
(* Two rotation services exist in the repository: src/api/main.py (the     *)
(* service setup.py deploys) and src/main.py.  Both keep the active index  *)
(* in current_index.json, regenerate haproxy.cfg and send HAProxy a reload *)
(* signal.  The variable  service  says which of the two is deployed.      *)
(* Every request is handled by a worker thread; a handler is cut into one  *)
(* step per file-system or container-runtime operation, because nothing in *)
(* the code serialises two requests.                                       *)
(***************************************************************************)
EXTENDS Integers, Sequences, FiniteSets, TLC

(* ---------------------------- bounds ----------------------------------- *)
\* largest num_tunnels a config.json holds in the model
MaxPool == 3
\* number of worker threads serving requests
NumWorkers == 2

(* ------------------------ program constants ---------------------------- *)
ActiveWeight == 100
InactiveWeight == 1

Workers == 1 .. NumWorkers
PoolSizes == 1 .. MaxPool

(* ------------------- the index file current_index.json ----------------- *)
\* What the file holds.  kind "int": {"index": index}.  Every other kind
\* carries index 0 only to keep one record shape.
FileAbsent == [kind |-> "absent", index |-> 0]
\* zero bytes: what open(path, "w") leaves before anything is written
FileEmpty == [kind |-> "empty", index |-> 0]
\* text that is not JSON (also a JSON text cut short)
FileGarbage == [kind |-> "garbage", index |-> 0]
\* valid JSON that is not an object, e.g. [1] or 5
FileNonObject == [kind |-> "nonobject", index |-> 0]
\* a JSON object without the key "index", e.g. {}
FileNoKey == [kind |-> "nokey", index |-> 0]
\* the file exists and open(path, "r") raises PermissionError
FileUnreadable == [kind |-> "unreadable", index |-> 0]
\* {"index": "abc"}: a value that is not an integer
FileNonInt == [kind |-> "nonint", index |-> 0]
FileIndex(k) == [kind |-> "int", index |-> k]

\* the contents an editor, a crash or a full disk can leave behind
IndexFileStates ==
    {FileAbsent, FileEmpty, FileGarbage, FileNonObject, FileNoKey,
     FileUnreadable, FileNonInt} \cup {FileIndex(k) : k \in -1 .. MaxPool}

(* The value a read hands to its caller: raised (an exception left the     *)
(* function), or a value that is an integer (isInt, val) or is not.        *)
Returned(v) == [raised |-> FALSE, isInt |-> TRUE, val |-> v]
ReturnedNonInt == [raised |-> FALSE, isInt |-> FALSE, val |-> 0]
Raised == [raised |-> TRUE, isInt |-> FALSE, val |-> 0]

\* src/api/main.py get_current_index: exists() is checked first; only
\* JSONDecodeError and IOError are caught; .get("index", 0) is applied to
\* whatever json.load returned and its result is returned unchecked.
get_current_index(f) ==
    CASE f.kind = "absent" -> Returned(0)
      [] f.kind = "unreadable" -> Returned(0)
      [] f.kind \in {"empty", "garbage"} -> Returned(0)
      [] f.kind = "nonobject" -> Raised
      [] f.kind = "nokey" -> Returned(0)
      [] f.kind = "nonint" -> ReturnedNonInt
      [] f.kind = "int" -> Returned(f.index)

\* src/main.py load_current_index: the same reads behind os.path.exists
load_current_index(f) ==
    IF f.kind # "absent"
    THEN CASE f.kind \in {"empty", "garbage", "unreadable"} -> Returned(0)
           [] f.kind = "nonobject" -> Raised
           [] f.kind = "nokey" -> Returned(0)
           [] f.kind = "nonint" -> ReturnedNonInt
           [] f.kind = "int" -> Returned(f.index)
    ELSE Returned(0)

(* --------------------------- backend lists ----------------------------- *)
\* a backend "warp<i>" is named by its number i
Backend(i, weight) == [name |-> i, weight |-> weight]

\* the variant of the list that compares the 1-based position with the index
ApiBackendsOffByOne(num_tunnels, new_index) ==
    [i \in 1 .. num_tunnels |->
        Backend(i, IF i = new_index THEN ActiveWeight ELSE InactiveWeight)]

\* src/api/main.py _generate_and_reload_haproxy, the list comprehension
ApiBackends(num_tunnels, new_index) ==
    [i \in 1 .. num_tunnels |->
        Backend(i, IF (i - 1) = new_index THEN ActiveWeight ELSE InactiveWeight)]

\* src/main.py generate_haproxy_cfg, the loop building the server lines
MainBackends(num_tunnels, current_index) ==
    [i \in 1 .. num_tunnels |->
        Backend(i, IF (i - 1) = current_index THEN ActiveWeight ELSE InactiveWeight)]

\* src/setup.py generate_files_from_templates: weight 100 for i == 1
SetupBackends(num_tunnels) ==
    [i \in 1 .. num_tunnels |->
        Backend(i, IF i = 1 THEN ActiveWeight ELSE InactiveWeight)]

(* haproxy.cfg on disk, and the configuration the HAProxy process runs.    *)
CfgAbsent == [kind |-> "absent", backends |-> << >>]
\* open(path, "w") succeeded and the write did not complete
CfgTruncated == [kind |-> "truncated", backends |-> << >>]
CfgOf(backends) == [kind |-> "cfg", backends |-> backends]

\* a file opened for appending: the new text follows what the file held
WriteCfgAppending(old, backends) == CfgOf(old.backends \o backends)

\* open(path, "w") and f.write(content) both done: the file holds the text
\* rendered from the backends, whatever it held before
WriteCfg(old, backends) == CfgOf(backends)

\* positions (0-based) of the backends a configuration weights 100
ActiveOf(c) ==
    {i - 1 : i \in {j \in 1 .. Len(c.backends) : c.backends[j].weight = ActiveWeight}}

(* ------------------------------ replies -------------------------------- *)
\* name: the number of the tunnel a reply names (0: none);
\* active: the numbers of the tunnels a listing marks active;
\* entries: the Tunnel objects of a listing, in the order returned.
Reply(op, status, detail, name, active, entries) ==
    [op |-> op, status |-> status, detail |-> detail, name |-> name,
     active |-> active, entries |-> entries]
NoReply == Reply("none", 0, "", 0, {}, << >>)

VARIABLES
    service,      \* "api": src/api/main.py is deployed; "main": src/main.py
    numTunnels,   \* num_tunnels of config.json
    cfgKind,      \* config.json: "ok" (an object with the required keys),
                  \* "missing", "malformed", "no_num_tunnels", "no_warp_socks_port"
    servicesUp,   \* the containers of the project run
    composeFile,  \* docker-compose.yml: "absent" or "present"
    containers,   \* per tunnel number: what containers.get gives for its
                  \* container ("running", "not_found", "error": APIError)
    idxFile,      \* current_index.json
    haproxyCfg,   \* haproxy.cfg
    liveCfg,      \* the configuration the HAProxy process last loaded
    pc,           \* per worker: where its handler is
    cfgN,         \* per worker: config["num_tunnels"] as the request loaded it
    cfgK,         \* per worker: cfgKind as the request found it
    cur,          \* per worker: current_index
    newIdx,       \* per worker: new_index
    attempt,      \* per worker: attempt of validate_haproxy_cfg while it runs
    reply,        \* per worker: the response of its last request
    failedAt,     \* per worker: the step at which its request failed
    cfgWrites,    \* per worker: completed writes of haproxy.cfg in its request
    signals,      \* per worker: reload signals HAProxy took in its request
    pre,          \* history: the index file when the latest rotation started
    expected,     \* history: the index the batch's successful rotations
                  \* give when applied one after the other
    batchFailed,  \* history: a rotation of the running batch failed
    cycle,        \* history: the successful rotations, one after the other,
                  \* since the index file was last put in place from outside
    retry         \* history: whether the latest rotation started right after
                  \* one that failed at the apply stage, and that one's target

vars == <<service, numTunnels, cfgKind, servicesUp, composeFile, containers, idxFile,
          haproxyCfg, liveCfg,
          pc, cfgN, cfgK, cur, newIdx, attempt, reply, failedAt, cfgWrites, signals, pre,
          expected, batchFailed, cycle, retry>>

files == <<idxFile, haproxyCfg, liveCfg>>
deployment == <<service, numTunnels, cfgKind, servicesUp, composeFile, containers>>

\* the tunnel containers "docker compose up" starts for a pool of n
Started(n) == [i \in 1 .. MaxPool |-> IF i <= n THEN "running" ELSE "not_found"]
locals == <<cfgN, cfgK, cur, newIdx, attempt>>
effects == <<cfgWrites, signals>>
history == <<expected, batchFailed, cycle, retry>>

\* the steps of _generate_and_reload_haproxy at which a rotation can fail
ApplyFailures == {"render", "write", "docker", "lookup", "signal"}

\* the latest rotation did not fail at the apply stage, or overlapped another
RetryNo == [state |-> "no", target |-> 0]
\* the latest rotation failed at the apply stage on its way to index target
RetryArmed(target) == [state |-> "armed", target |-> target]
\* a rotation starts: it is a retry if the one before failed at that stage
RetryBegin(r, loaded) ==
    IF r.state = "armed" /\ loaded THEN [r EXCEPT !.state = "yes"] ELSE RetryNo

\* no run of rotations is being followed
CycleOff == [on |-> FALSE, start |-> Returned(0), count |-> 0]
\* a run starts at an index file whose read gave r
CycleFrom(r) == [on |-> TRUE, start |-> r, count |-> 0]
\* one more rotation of the run succeeded; the run is followed for n of them
CycleStep(c, n) ==
    IF c.on /\ c.count < n THEN [c EXCEPT !.count = c.count + 1] ELSE CycleOff

Init ==
    /\ service \in {"api", "main"}
    /\ numTunnels \in PoolSizes
    /\ cfgKind = "ok"
    /\ servicesUp = FALSE
    /\ composeFile = "absent"
    /\ containers = Started(0)
    /\ idxFile = FileAbsent
    /\ haproxyCfg = CfgAbsent
    /\ liveCfg = CfgAbsent
    /\ pc = [w \in Workers |-> "idle"]
    /\ cfgN = [w \in Workers |-> 0]
    /\ cfgK = [w \in Workers |-> "none"]
    /\ cur = [w \in Workers |-> 0]
    /\ newIdx = [w \in Workers |-> 0]
    /\ attempt = [w \in Workers |-> 0]
    /\ reply = [w \in Workers |-> NoReply]
    /\ failedAt = [w \in Workers |-> "none"]
    /\ cfgWrites = [w \in Workers |-> 0]
    /\ signals = [w \in Workers |-> 0]
    /\ pre = FileAbsent
    /\ expected = 0
    /\ batchFailed = FALSE
    /\ cycle = CycleOff
    /\ retry = RetryNo

AllIdle == \A w \in Workers : pc[w] = "idle"


\* a worker is inside a rotation
InFlight(w) == pc[w] \notin {"idle", "done", "failed", "crashed"}
\* no other worker is inside a rotation
Alone(w) == \A v \in Workers \ {w} : ~InFlight(v)
\* no rotation is in progress
Quiescent == \A w \in Workers : ~InFlight(w)

\* the read of the index file by the deployed service
ReadIndex(f) ==
    IF service = "api" THEN get_current_index(f) ELSE load_current_index(f)

(* ------------------------- steps shared by both ------------------------ *)
\* Python's a % b for b # 0: the result has the sign of b
PyMod(a, b) == IF b > 0 THEN a % b ELSE -((-a) % (-b))

\* get_config returns what json.load gives: only a missing file and a file
\* that is no JSON are errors
ApiConfigLoads == cfgKind \notin {"missing", "malformed"}

\* load_config of src/main.py returns the configuration only with its
\* required keys present and num_tunnels >= 1
MainConfigLoads == cfgKind = "ok" /\ numTunnels >= 1

\* the detail of the HTTPException load_config raises
MainConfigError ==
    CASE cfgKind = "missing" -> "config.json not found"
      [] cfgKind = "malformed" -> "Invalid config.json"
      [] cfgKind \in {"no_num_tunnels", "no_warp_socks_port"}
            -> "Missing key in config.json"
      [] OTHER -> "num_tunnels must be an integer >= 1"

\* A rotation request starts and loads the configuration (loaded: the load
\* returned one).  A batch is a maximal set of overlapping rotations: its
\* history restarts when no other rotation is in progress.
BeginRotation(w, loaded) ==
    /\ pc[w] = "idle"
    /\ servicesUp
    /\ pre' = idxFile
    /\ cfgN' = [cfgN EXCEPT ![w] = numTunnels]
    /\ cfgK' = [cfgK EXCEPT ![w] = cfgKind]
    /\ expected' = (IF ~Quiescent THEN expected
                    ELSE IF get_current_index(idxFile).isInt
                    THEN get_current_index(idxFile).val ELSE 0)
    /\ batchFailed' = (~loaded \/ (~Quiescent /\ batchFailed))
    /\ cycle' = (IF loaded THEN cycle ELSE CycleOff)
    /\ retry' = RetryBegin(retry, loaded /\ Quiescent)

\* the load of the configuration raised: the request ends with status 500
Reject(w, loaded, first, detail) ==
    IF loaded
    THEN /\ pc' = [pc EXCEPT ![w] = first]
         /\ reply' = [reply EXCEPT ![w] = NoReply]
         /\ UNCHANGED failedAt
    ELSE /\ pc' = [pc EXCEPT ![w] = "failed"]
         /\ reply' = [reply EXCEPT ![w] = Reply("rotate", 500, detail, 0, {}, << >>)]
         /\ failedAt' = [failedAt EXCEPT ![w] = "config"]

\* The handler raises: the request ends with an error response.
Fail(w, at, status, detail) ==
    /\ pc' = [pc EXCEPT ![w] = "failed"]
    /\ failedAt' = [failedAt EXCEPT ![w] = at]
    /\ reply' = [reply EXCEPT ![w] = Reply("rotate", status, detail, 0, {}, << >>)]
    /\ batchFailed' = TRUE
    /\ cycle' = CycleOff
    /\ retry' = (IF at \in ApplyFailures /\ Alone(w)
                 THEN RetryArmed(newIdx[w]) ELSE RetryNo)
    /\ UNCHANGED expected

\* The handler goes on to its next step; reaching the end it returns
\* status "rotated" and the name warp{new_index + 1}.
Goto(w, nxt) ==
    /\ pc' = [pc EXCEPT ![w] = nxt]
    /\ IF nxt = "done"
       THEN /\ reply' = [reply EXCEPT
                           ![w] = Reply("rotate", 200, "rotated", newIdx[w] + 1, {}, << >>)]
            /\ expected' = PyMod(expected + 1, cfgN[w])
            /\ cycle' = CycleStep(cycle, cfgN[w])
       ELSE UNCHANGED <<reply, expected, cycle>>
    /\ UNCHANGED <<failedAt, batchFailed, retry>>

\* HAProxy re-reads haproxy.cfg on SIGHUP; a file it cannot parse leaves the
\* running configuration in place.
Reloaded == IF haproxyCfg.kind = "cfg" THEN haproxyCfg ELSE liveCfg

\* the successor taken without wrapping around the pool
NextIndexNoWrap(current_index, num_tunnels) == current_index + 1

\* new_index = (current_index + 1) % config["num_tunnels"]
NextIndex(current_index, num_tunnels) == PyMod(current_index + 1, num_tunnels)

(* ------------------ POST /rotate of src/api/main.py -------------------- *)
\* the order in which a rotation persisted the index before applying it
ApiAfterSaveFirst(stage) ==
    CASE stage = "a_read" -> "a_save"
      [] stage = "a_save" -> "a_savewrite"
      [] stage = "a_savewrite" -> "a_gen"
      [] stage = "a_gen" -> "a_reload"
      [] stage = "a_reload" -> "done"

\* the order in which HAProxy was signalled before haproxy.cfg was written
ApiAfterReloadFirst(stage) ==
    CASE stage = "a_read" -> "a_reload"
      [] stage = "a_reload" -> "a_gen"
      [] stage = "a_gen" -> "a_save"
      [] stage = "a_save" -> "a_savewrite"
      [] stage = "a_savewrite" -> "done"

\* the order in which a rotation persisted the index before signalling
ApiAfterSaveBeforeReload(stage) ==
    CASE stage = "a_read" -> "a_gen"
      [] stage = "a_gen" -> "a_save"
      [] stage = "a_save" -> "a_savewrite"
      [] stage = "a_savewrite" -> "a_reload"
      [] stage = "a_reload" -> "done"

\* rotate_tunnel: get_current_index; _generate_and_reload_haproxy (write,
\* then _reload_haproxy); save_current_index (open, then json.dump); return
ApiAfter(stage) ==
    CASE stage = "a_read" -> "a_gen"
      [] stage = "a_gen" -> "a_reload"
      [] stage = "a_reload" -> "a_save"
      [] stage = "a_save" -> "a_savewrite"
      [] stage = "a_savewrite" -> "done"

\* Depends(get_config): the configuration is loaded when the request starts
ApiGetConfig(w) ==
    /\ service = "api"
    /\ BeginRotation(w, ApiConfigLoads)
    /\ Reject(w, ApiConfigLoads, "a_read", "Server configuration error")
    /\ UNCHANGED <<deployment, files, cur, newIdx, attempt, effects>>

\* current_index = get_current_index(); new_index = (current_index + 1) % n.
\* An AttributeError of the read, or the TypeError of adding 1 to a value
\* that is no number, is not caught: the request ends with status 500.
ApiReadIndex(w) ==
    /\ pc[w] = "a_read"
    /\ LET r == get_current_index(idxFile) IN
         IF r.raised
         THEN /\ Fail(w, "index_read", 500, "Internal Server Error")
              /\ UNCHANGED <<cur, newIdx>>
         ELSE IF ~r.isInt
         THEN /\ Fail(w, "index_compute", 500, "Internal Server Error")
              /\ UNCHANGED <<cur, newIdx>>
         ELSE IF cfgK[w] = "no_num_tunnels"
         THEN \* KeyError of config["num_tunnels"]
              /\ Fail(w, "config_key", 500, "Internal Server Error")
              /\ UNCHANGED <<cur, newIdx>>
         ELSE IF cfgN[w] = 0
         THEN \* ZeroDivisionError
              /\ Fail(w, "zero_division", 500, "Internal Server Error")
              /\ UNCHANGED <<cur, newIdx>>
         ELSE /\ cur' = [cur EXCEPT ![w] = r.val]
              /\ newIdx' = [newIdx EXCEPT ![w] = NextIndex(r.val, cfgN[w])]
              /\ Goto(w, ApiAfter("a_read"))
    /\ UNCHANGED <<deployment, files, cfgN, cfgK, attempt, effects, pre>>

\* _generate_and_reload_haproxy, lines 134-151: build the backends, render,
\* open haproxy.cfg for writing and write it.  Every exception becomes
\* status 500 "Failed to update HAProxy configuration."
ApiGenerate(w) ==
    /\ pc[w] = "a_gen"
    /\ \/ \* config['warp_socks_port'] is read once per backend
          /\ cfgK[w] = "no_warp_socks_port" => cfgN[w] < 1
          /\ haproxyCfg' = WriteCfg(haproxyCfg, ApiBackends(cfgN[w], newIdx[w]))
          /\ cfgWrites' = [cfgWrites EXCEPT ![w] = cfgWrites[w] + 1]
          /\ Goto(w, ApiAfter("a_gen"))
       \/ \* a KeyError of the list, a template missing or not rendering
          /\ Fail(w, "render", 500, "Failed to update HAProxy configuration.")
          /\ UNCHANGED <<haproxyCfg, cfgWrites>>
       \/ \* open() fails (file unchanged) or write() fails (file cut short)
          /\ Fail(w, "write", 500, "Failed to update HAProxy configuration.")
          /\ haproxyCfg' \in {haproxyCfg, CfgTruncated}
          /\ UNCHANGED cfgWrites
    /\ UNCHANGED <<deployment, idxFile, liveCfg, locals, signals, pre>>

\* _reload_haproxy: docker client, containers.get, kill(SIGHUP).  Its
\* HTTPExceptions (503, 404, 500) are caught by the except Exception of
\* _generate_and_reload_haproxy and replaced by the same status 500.
ApiReload(w) ==
    /\ pc[w] = "a_reload"
    /\ \/ /\ liveCfg' = Reloaded
          /\ signals' = [signals EXCEPT ![w] = signals[w] + 1]
          /\ Goto(w, ApiAfter("a_reload"))
       \/ /\ \E at \in {"docker", "lookup", "signal"} :
                Fail(w, at, 500, "Failed to update HAProxy configuration.")
          /\ UNCHANGED <<liveCfg, signals>>
    /\ UNCHANGED <<deployment, idxFile, haproxyCfg, locals, cfgWrites, pre>>

\* save_current_index: open(CURRENT_INDEX_FILE, "w") truncates the file
ApiSaveOpen(w) ==
    /\ pc[w] = "a_save"
    /\ \/ /\ idxFile' = FileEmpty
          /\ Goto(w, ApiAfter("a_save"))
       \/ /\ Fail(w, "save_open", 500, "Failed to save state.")
          /\ UNCHANGED idxFile
    /\ UNCHANGED <<deployment, haproxyCfg, liveCfg, locals, effects, pre>>

\* save_current_index: json.dump({"index": index}, f) and the close
ApiSaveWrite(w) ==
    /\ pc[w] = "a_savewrite"
    /\ \/ /\ idxFile' = FileIndex(newIdx[w])
          /\ Goto(w, ApiAfter("a_savewrite"))
       \/ \* the write or the flush fails (disk full): what open left stays
          /\ Fail(w, "save_write", 500, "Failed to save state.")
          /\ UNCHANGED idxFile
    /\ UNCHANGED <<deployment, haproxyCfg, liveCfg, locals, effects, pre>>

\* the response has been sent, or the service has been restarted after a
\* crash; the worker is free again
Return(w) ==
    /\ pc[w] \in {"done", "failed", "crashed"}
    /\ pc' = [pc EXCEPT ![w] = "idle"]
    /\ cfgN' = [cfgN EXCEPT ![w] = 0]
    /\ cfgK' = [cfgK EXCEPT ![w] = "none"]
    /\ cur' = [cur EXCEPT ![w] = 0]
    /\ newIdx' = [newIdx EXCEPT ![w] = 0]
    /\ attempt' = [attempt EXCEPT ![w] = 0]
    /\ reply' = [reply EXCEPT ![w] = NoReply]
    /\ failedAt' = [failedAt EXCEPT ![w] = "none"]
    /\ cfgWrites' = [cfgWrites EXCEPT ![w] = 0]
    /\ signals' = [signals EXCEPT ![w] = 0]
    /\ UNCHANGED <<deployment, files, pre, history>>


(* -------------------- POST /rotate of src/main.py ---------------------- *)
\* rotate: load_current_index; save_current_index (open, then json.dump);
\* generate_haproxy_cfg (write, then validate_haproxy_cfg); containers.get
\* and kill(HUP); return
MainAfter(stage) ==
    CASE stage = "m_read" -> "m_save"
      [] stage = "m_save" -> "m_savewrite"
      [] stage = "m_savewrite" -> "m_gen"
      [] stage = "m_gen" -> "m_validate"
      [] stage = "m_validate" -> "m_reload"
      [] stage = "m_reload" -> "done"

\* config = load_config()
MainLoadConfig(w) ==
    /\ service = "main"
    /\ BeginRotation(w, MainConfigLoads)
    /\ Reject(w, MainConfigLoads, "m_read", MainConfigError)
    /\ UNCHANGED <<deployment, files, cur, newIdx, attempt, effects>>

\* current_index = load_current_index(); new_index = (current_index + 1) % n
MainReadIndex(w) ==
    /\ pc[w] = "m_read"
    /\ LET r == load_current_index(idxFile) IN
         IF r.raised
         THEN /\ Fail(w, "index_read", 500, "Internal Server Error")
              /\ UNCHANGED <<cur, newIdx>>
         ELSE IF ~r.isInt
         THEN /\ Fail(w, "index_compute", 500, "Internal Server Error")
              /\ UNCHANGED <<cur, newIdx>>
         ELSE /\ cur' = [cur EXCEPT ![w] = r.val]
              /\ newIdx' = [newIdx EXCEPT ![w] = NextIndex(r.val, cfgN[w])]
              /\ Goto(w, MainAfter("m_read"))
    /\ UNCHANGED <<deployment, files, cfgN, cfgK, attempt, effects, pre>>

\* save_current_index: open(CURRENT_INDEX_FILE, "w") truncates the file
MainSaveOpen(w) ==
    /\ pc[w] = "m_save"
    /\ \/ /\ idxFile' = FileEmpty
          /\ Goto(w, MainAfter("m_save"))
       \/ /\ Fail(w, "save_open", 500, "Failed to save current index")
          /\ UNCHANGED idxFile
    /\ UNCHANGED <<deployment, haproxyCfg, liveCfg, locals, effects, pre>>

\* save_current_index: json.dump({"index": index}, f) and the close
MainSaveWrite(w) ==
    /\ pc[w] = "m_savewrite"
    /\ \/ /\ idxFile' = FileIndex(newIdx[w])
          /\ Goto(w, MainAfter("m_savewrite"))
       \/ /\ Fail(w, "save_write", 500, "Failed to save current index")
          /\ UNCHANGED idxFile
    /\ UNCHANGED <<deployment, haproxyCfg, liveCfg, locals, effects, pre>>

\* generate_haproxy_cfg, lines 90-118: build the server lines and write
\* /app/haproxy.cfg; an IOError becomes status 500
MainGenerate(w) ==
    /\ pc[w] = "m_gen"
    /\ \/ /\ haproxyCfg' = WriteCfg(haproxyCfg, MainBackends(cfgN[w], newIdx[w]))
          /\ cfgWrites' = [cfgWrites EXCEPT ![w] = cfgWrites[w] + 1]
          /\ Goto(w, MainAfter("m_gen"))
       \/ /\ Fail(w, "write", 500, "Failed to write haproxy.cfg")
          /\ haproxyCfg' \in {haproxyCfg, CfgTruncated}
          /\ UNCHANGED cfgWrites
    /\ UNCHANGED <<deployment, idxFile, liveCfg, locals, signals, pre>>

\* validate_haproxy_cfg: haproxy -c in a container, at most three attempts;
\* a missing docker binary ends it at once.  The file stays as written.
MainValidate(w) ==
    /\ pc[w] = "m_validate"
    /\ \/ /\ Goto(w, MainAfter("m_validate"))
          /\ attempt' = [attempt EXCEPT ![w] = 0]
       \/ \* CalledProcessError with attempts left: sleep and try again
          /\ attempt[w] < 2
          /\ attempt' = [attempt EXCEPT ![w] = attempt[w] + 1]
          /\ UNCHANGED <<pc, reply, failedAt, history>>
       \/ \* CalledProcessError on the last attempt
          /\ attempt[w] = 2
          /\ Fail(w, "validate", 500, "Invalid haproxy.cfg generated")
          /\ attempt' = [attempt EXCEPT ![w] = 0]
       \/ \* FileNotFoundError
          /\ Fail(w, "validate", 500, "Invalid haproxy.cfg generated")
          /\ attempt' = [attempt EXCEPT ![w] = 0]
    /\ UNCHANGED <<deployment, files, cfgN, cfgK, cur, newIdx, effects, pre>>

\* client.containers.get(haproxy_container); container.kill(signal="HUP")
MainReload(w) ==
    /\ pc[w] = "m_reload"
    /\ \/ /\ liveCfg' = Reloaded
          /\ signals' = [signals EXCEPT ![w] = signals[w] + 1]
          /\ Goto(w, MainAfter("m_reload"))
       \/ /\ Fail(w, "lookup", 500, "HAProxy container not found")
          /\ UNCHANGED <<liveCfg, signals>>
       \/ /\ Fail(w, "signal", 500, "Failed to reload HAProxy")
          /\ UNCHANGED <<liveCfg, signals>>
    /\ UNCHANGED <<deployment, idxFile, haproxyCfg, locals, cfgWrites, pre>>

(* ------------------------- read-only requests -------------------------- *)
\* the tunnels a listing marks active: (i - 1) == current_index
ActiveFlags(num_tunnels, r) ==
    {i \in 1 .. num_tunnels : r.isInt /\ (i - 1) = r.val}

\* what containers.get gives for the container of a tunnel number
Lookup(tunnel_number) ==
    IF tunnel_number \in DOMAIN containers THEN containers[tunnel_number]
    ELSE "not_found"

\* the status with NotFound and APIError handled in the other order
TunnelStatusApiErrorFirst(outcome) ==
    IF outcome \in {"not_found", "error"} THEN "error" ELSE outcome

\* status = "not_found"; status = container.status; except NotFound: the
\* default stays; except APIError: status = "error"
TunnelStatus(outcome) ==
    CASE outcome = "not_found" -> "not_found"
      [] outcome = "error" -> "error"
      [] OTHER -> outcome

\* warp_host_port_base of the config.json setup.py accepted
WarpHostPortBase == 40000

\* setup.py generate_files_from_templates: the host port published for warp<i>
SetupHostPort(host_port_base, i) == host_port_base + (i - 1)

\* _get_tunnel_details: direct_access_port, None (here 0) for a falsy base
DirectAccessPort(host_port_base, tunnel_number) ==
    IF host_port_base # 0 THEN host_port_base + tunnel_number ELSE 0

\* get_tunnel_ip: the port _get_public_ip is pointed at
IpProbePort(host_port_base, tunnel_number) == host_port_base + tunnel_number

\* _get_tunnel_details: the Tunnel object of one tunnel
get_tunnel_details(tunnel_number, is_active) ==
    [name |-> tunnel_number, status |-> TunnelStatus(Lookup(tunnel_number)),
     isActive |-> is_active,
     directAccessPort |-> DirectAccessPort(WarpHostPortBase, tunnel_number)]

\* the list GET /list returns: one Tunnel per i in range(1, num_tunnels + 1)
TunnelList(num_tunnels, r) ==
    [i \in 1 .. num_tunnels |-> get_tunnel_details(i, r.isInt /\ (i - 1) = r.val)]

\* GET /list of src/api/main.py
list_all_tunnels(w) ==
    /\ service = "api"
    /\ pc[w] = "idle"
    /\ servicesUp
    /\ LET r == get_current_index(idxFile) IN
         reply' = [reply EXCEPT ![w] =
                     IF ~ApiConfigLoads
                     THEN Reply("list", 500, "Server configuration error", 0, {}, << >>)
                     ELSE IF r.raised \/ cfgKind = "no_num_tunnels"
                     THEN Reply("list", 500, "Internal Server Error", 0, {}, << >>)
                     ELSE Reply("list", 200, "", 0, ActiveFlags(numTunnels, r),
                                TunnelList(numTunnels, r))]
    /\ pc' = [pc EXCEPT ![w] = "done"]
    /\ UNCHANGED <<deployment, files, locals, failedAt, effects, pre, history>>

\* a GET /current that writes haproxy.cfg anew for the index it read
get_current_tunnel_saving(w) ==
    /\ service = "api"
    /\ pc[w] = "idle"
    /\ servicesUp
    /\ LET r == get_current_index(idxFile) IN
         /\ reply' = [reply EXCEPT ![w] =
                        IF ~ApiConfigLoads
                        THEN Reply("current", 500, "Server configuration error", 0, {},
                                   << >>)
                        ELSE IF r.raised \/ ~r.isInt
                        THEN Reply("current", 500, "Internal Server Error", 0, {}, << >>)
                        ELSE Reply("current", 200, "", r.val + 1, {r.val + 1},
                                   <<get_tunnel_details(r.val + 1, TRUE)>>)]
         /\ haproxyCfg' = (IF ~ApiConfigLoads \/ r.raised \/ ~r.isInt \/ cfgKind # "ok"
                           THEN haproxyCfg
                           ELSE CfgOf(ApiBackends(numTunnels, r.val)))
    /\ pc' = [pc EXCEPT ![w] = "done"]
    /\ UNCHANGED <<deployment, idxFile, liveCfg, locals, failedAt, effects, pre,
                   history>>

\* the response of get_current_tunnel when the index file is f: the tunnel
\* current_index + 1, isActive=True
CurrentReply(f) ==
    LET r == get_current_index(f) IN
      IF ~ApiConfigLoads
      THEN Reply("current", 500, "Server configuration error", 0, {}, << >>)
      ELSE IF r.raised \/ ~r.isInt
      THEN Reply("current", 500, "Internal Server Error", 0, {}, << >>)
      ELSE Reply("current", 200, "", r.val + 1, {r.val + 1},
                 <<get_tunnel_details(r.val + 1, TRUE)>>)

\* GET /current of src/api/main.py
get_current_tunnel(w) ==
    /\ service = "api"
    /\ pc[w] = "idle"
    /\ servicesUp
    /\ reply' = [reply EXCEPT ![w] = CurrentReply(idxFile)]
    /\ pc' = [pc EXCEPT ![w] = "done"]
    /\ UNCHANGED <<deployment, files, locals, failedAt, effects, pre, history>>

\* the numbers n of the names warp<n> a client asks the IP of
TunnelNumbers == 0 .. MaxPool + 1

\* the response of get_tunnel_ip.  parses: the name is "warp" and an integer
\* t; fetched: the request through the tunnel's direct access port gave an
\* address.  warp_host_port_base is written to config.json by setup.py, so
\* the 404 of a missing port base does not arise from the configurations
\* modelled here.
IpReply(parses, t, fetched) ==
    IF ~ApiConfigLoads
    THEN Reply("ip", 500, "Server configuration error", 0, {}, << >>)
    ELSE IF ~parses
    THEN Reply("ip", 400, "Invalid tunnel name format.", 0, {}, << >>)
    ELSE IF cfgKind = "no_num_tunnels"
    THEN Reply("ip", 500, "Internal Server Error", 0, {}, << >>)
    ELSE IF ~(1 <= t /\ t <= numTunnels)
    THEN Reply("ip", 400, "Invalid tunnel name format.", 0, {}, << >>)
    ELSE IF ~fetched
    THEN Reply("ip", 504, "Could not fetch public IP.", 0, {}, << >>)
    ELSE Reply("ip", 200, "", 0, {}, << >>)

\* GET /tunnels/{tunnel_name}/ip of src/api/main.py, for a name that is no
\* warp<integer>, or for warp<t> with the fetch succeeding or not
get_tunnel_ip(w) ==
    /\ service = "api"
    /\ pc[w] = "idle"
    /\ servicesUp
    /\ \/ reply' = [reply EXCEPT ![w] = IpReply(FALSE, 0, FALSE)]
       \/ \E t \in TunnelNumbers :
             reply' \in {[reply EXCEPT ![w] = IpReply(TRUE, t, TRUE)],
                         [reply EXCEPT ![w] = IpReply(TRUE, t, FALSE)]}
    /\ pc' = [pc EXCEPT ![w] = "done"]
    /\ UNCHANGED <<deployment, files, locals, failedAt, effects, pre, history>>

\* GET /current of src/main.py: every tunnel with its "active" flag
get_current(w) ==
    /\ service = "main"
    /\ pc[w] = "idle"
    /\ servicesUp
    /\ LET r == load_current_index(idxFile) IN
         reply' = [reply EXCEPT ![w] =
                     IF ~MainConfigLoads
                     THEN Reply("current", 500, MainConfigError, 0, {}, << >>)
                     ELSE IF r.raised
                     THEN Reply("current", 500, "Internal Server Error", 0, {}, << >>)
                     ELSE Reply("current", 200, "", 0, ActiveFlags(numTunnels, r),
                                TunnelList(numTunnels, r))]
    /\ pc' = [pc EXCEPT ![w] = "done"]
    /\ UNCHANGED <<deployment, files, locals, failedAt, effects, pre, history>>

(* ------------------------------ setup.py ------------------------------- *)
\* a setup that writes {"index": 0} whether or not the file exists
InitialIndexFileAlways(f) == FileIndex(0)

\* "Initialize rotation state" of main: the index file after it, from the
\* index file f before it
InitialIndexFile(f) == IF f.kind = "absent" THEN FileIndex(0) ELSE f

\* main of setup.py, run by the operator on a valid config.json with
\* num_tunnels = n while no request is being served (on any other its
\* load_config exits before a file is touched): the index file is created with
\* index 0 only if it does not exist, docker-compose.yml is written,
\* haproxy.cfg is generated for warp1,
\* the services are built and started.  Whether a running HAProxy picks the
\* regenerated file up on "up -d" depends on the compose template.
Setup(n) ==
    /\ AllIdle
    /\ numTunnels' = n
    /\ cfgKind' = "ok"
    /\ idxFile' = InitialIndexFile(idxFile)
    /\ haproxyCfg' = CfgOf(SetupBackends(n))
    /\ servicesUp' = TRUE
    /\ composeFile' = "present"
    /\ containers' = Started(n)
    /\ liveCfg' \in (IF servicesUp THEN {liveCfg, CfgOf(SetupBackends(n))}
                                   ELSE {CfgOf(SetupBackends(n))})
    /\ cycle' = CycleOff
    /\ retry' = RetryNo
    /\ UNCHANGED <<service, pc, locals, reply, failedAt, effects, pre, expected,
                   batchFailed>>

(* ----------------------------- cleanup.py ------------------------------ *)
\* main of cleanup.py, run by the operator while no request is being served:
\* "compose down" stops and removes the containers unless both compose
\* commands fail; each generated file is unlinked unless the unlink raises
\* OSError, which is logged and passed over.
Cleanup ==
    /\ AllIdle
    /\ servicesUp' \in {FALSE, servicesUp}
    /\ containers' = (IF servicesUp' THEN containers ELSE Started(0))
    /\ liveCfg' = (IF servicesUp' THEN liveCfg ELSE CfgAbsent)
    /\ composeFile' \in {"absent", composeFile}
    /\ idxFile' \in {FileAbsent, idxFile}
    /\ haproxyCfg' \in {CfgAbsent, haproxyCfg}
    /\ cycle' = CycleOff
    /\ retry' = RetryNo
    /\ UNCHANGED <<service, numTunnels, cfgKind, pc, locals, reply, failedAt,
                   effects, pre, expected, batchFailed>>

(* ----------------------------- environment ----------------------------- *)
\* Between two requests the index file is deleted, cut short or edited.
Corrupt(f) ==
    /\ AllIdle
    /\ servicesUp
    /\ f # idxFile
    /\ idxFile' = f
    /\ cycle' = (IF ReadIndex(f).raised THEN CycleOff ELSE CycleFrom(ReadIndex(f)))
    /\ retry' = RetryNo
    /\ UNCHANGED <<deployment, haproxyCfg, liveCfg, pc, locals, reply, failedAt,
                   effects, pre, expected, batchFailed>>

\* Between two requests a tunnel container of the pool stops existing, comes
\* back, or the Docker API starts failing for it.
ContainerChange(i, s) ==
    /\ AllIdle
    /\ servicesUp
    /\ i <= numTunnels
    /\ containers[i] # s
    /\ containers' = [containers EXCEPT ![i] = s]
    /\ UNCHANGED <<service, numTunnels, cfgKind, servicesUp, composeFile, files, pc,
                   locals, reply,
                   failedAt, effects, pre, history>>

\* The service process dies inside a rotation: the handler stops where it
\* is and no response is sent.  A write in progress leaves its file as far
\* as it came.
Crash(w) ==
    /\ InFlight(w)
    /\ pc' = [pc EXCEPT ![w] = "crashed"]
    /\ failedAt' = [failedAt EXCEPT ![w] = pc[w]]
    /\ idxFile' \in (IF pc[w] \in {"a_savewrite", "m_savewrite"}
                     THEN {idxFile, FileGarbage} ELSE {idxFile})
    /\ haproxyCfg' \in (IF pc[w] \in {"a_gen", "m_gen"}
                        THEN {haproxyCfg, CfgTruncated} ELSE {haproxyCfg})
    /\ batchFailed' = TRUE
    /\ cycle' = CycleOff
    /\ retry' = RetryNo
    /\ UNCHANGED <<deployment, liveCfg, locals, reply, effects, pre, expected>>

\* the values of num_tunnels below 1 an edited config.json holds
BadPoolSizes == {-1, 0}

\* Between two requests config.json is removed, damaged, or edited so
\* that a required key is gone or num_tunnels is below 1.
EditConfig(k, n) ==
    /\ AllIdle
    /\ servicesUp
    /\ \/ k \in {"missing", "malformed", "no_num_tunnels", "no_warp_socks_port"}
          /\ n = numTunnels
       \/ k = "ok" /\ n \in BadPoolSizes
    /\ <<k, n>> # <<cfgKind, numTunnels>>
    /\ cfgKind' = k
    /\ numTunnels' = n
    /\ cycle' = CycleOff
    /\ retry' = RetryNo
    /\ UNCHANGED <<service, servicesUp, composeFile, containers, files, pc, locals,
                   reply,
                   failedAt, effects, pre, expected, batchFailed>>

(* --------------------------- specifications ---------------------------- *)
Handle(w) ==
    \/ ApiGetConfig(w) \/ ApiReadIndex(w) \/ ApiGenerate(w) \/ ApiReload(w)
    \/ ApiSaveOpen(w) \/ ApiSaveWrite(w)
    \/ MainLoadConfig(w) \/ MainReadIndex(w) \/ MainSaveOpen(w) \/ MainSaveWrite(w)
    \/ MainGenerate(w) \/ MainValidate(w) \/ MainReload(w)
    \/ list_all_tunnels(w) \/ get_current_tunnel(w) \/ get_tunnel_ip(w)
    \/ get_current(w)
    \/ Return(w)

\* the read-only operations
ReadOps == {"list", "current", "ip"}

\* the deployed service with all its workers, and the operator's setup runs
Next ==
    \/ \E w \in Workers : Handle(w)
    \/ \E n \in PoolSizes : Setup(n)

Spec == Init /\ [][Next]_vars

\* one request at a time
NextSeq ==
    \/ Handle(1)
    \/ \E n \in PoolSizes : Setup(n)

SpecSeq == Init /\ [][NextSeq]_vars

\* one request at a time, and an index file that can be damaged in between
NextEnv ==
    \/ Handle(1)
    \/ \E n \in PoolSizes : Setup(n)
    \/ \E f \in IndexFileStates : Corrupt(f)

SpecEnv == Init /\ [][NextEnv]_vars

\* one request at a time, and a config.json that can be damaged in between
NextCfg ==
    \/ Handle(1)
    \/ \E n \in PoolSizes : Setup(n)
    \/ \E k \in {"ok", "missing", "malformed", "no_num_tunnels", "no_warp_socks_port"} :
          \E n \in BadPoolSizes \cup PoolSizes : EditConfig(k, n)

SpecCfg == Init /\ [][NextCfg]_vars

\* one request at a time, and tunnel containers that come and go in between
NextOps ==
    \/ Handle(1)
    \/ \E n \in PoolSizes : Setup(n)
    \/ \E i \in 1 .. MaxPool : \E s \in {"running", "not_found", "error"} :
          ContainerChange(i, s)

SpecOps == Init /\ [][NextOps]_vars

\* one request at a time, and a service that can die inside a rotation
NextCrash ==
    \/ Handle(1)
    \/ \E n \in PoolSizes : Setup(n)
    \/ Crash(1)

SpecCrash == Init /\ [][NextCrash]_vars

\* one request at a time, setup runs and cleanup runs
NextLife ==
    \/ Handle(1)
    \/ \E n \in PoolSizes : Setup(n)
    \/ Cleanup

SpecLife == Init /\ [][NextLife]_vars

\* the indexes _generate_and_reload_haproxy(config, new_index) and
\* generate_haproxy_cfg(config, current_index) are called with
BuildIndexes == -2 .. MaxPool + 1

\* worker 1 is at the call of the generator with any integer as index
InitBuild ==
    /\ service \in {"api", "main"}
    /\ numTunnels \in PoolSizes
    /\ cfgKind = "ok"
    /\ servicesUp = TRUE
    /\ composeFile = "present"
    /\ containers = Started(numTunnels)
    /\ idxFile = FileIndex(0)
    /\ haproxyCfg = CfgOf(SetupBackends(numTunnels))
    /\ liveCfg = haproxyCfg
    /\ pc = [w \in Workers |->
                IF w # 1 THEN "idle" ELSE IF service = "api" THEN "a_gen" ELSE "m_gen"]
    /\ cfgN = [w \in Workers |-> IF w = 1 THEN numTunnels ELSE 0]
    /\ cfgK = [w \in Workers |-> IF w = 1 THEN "ok" ELSE "none"]
    /\ cur = [w \in Workers |-> 0]
    /\ newIdx \in [Workers -> BuildIndexes]
    /\ \A w \in Workers : w # 1 => newIdx[w] = 0
    /\ attempt = [w \in Workers |-> 0]
    /\ reply = [w \in Workers |-> NoReply]
    /\ failedAt = [w \in Workers |-> "none"]
    /\ cfgWrites = [w \in Workers |-> 0]
    /\ signals = [w \in Workers |-> 0]
    /\ pre = idxFile
    /\ expected = 0
    /\ batchFailed = FALSE
    /\ cycle = CycleOff
    /\ retry = RetryNo

\* the generator runs on its arguments
NextBuild == ApiGenerate(1) \/ MainGenerate(1)

SpecBuild == InitBuild /\ [][NextBuild]_vars


(* ------------------------------- claims -------------------------------- *)

\* the active tunnels /list reports for an index file
Reported(f) == ActiveFlags(numTunnels, get_current_index(f))

\* C1: when rotate_tunnel of src/api/main.py fails while building the
\* backends, rendering, writing haproxy.cfg, locating the HAProxy container
\* or signalling it, the index file holds after the call what it held
\* before it, and /list reports the tunnel it reported before.
C1_ApiApplyFailureKeepsIndex ==
    \A w \in Workers :
        (service = "api" /\ pc[w] = "failed" /\ failedAt[w] \in ApplyFailures)
            => /\ idxFile = pre
               /\ Reported(idxFile) = Reported(pre)

\* C1's case: the container lookup failed after haproxy.cfg was rewritten
\* for warp3, and the index file still names index 1
C1_Witness ==
    \E w \in Workers :
        /\ service = "api" /\ pc[w] = "failed" /\ failedAt[w] = "lookup"
        /\ cfgN[w] = 3 /\ pre = FileIndex(1) /\ idxFile = FileIndex(1)
        /\ ActiveOf(haproxyCfg) = {2}

\* C2: when rotate of src/main.py fails at writing haproxy.cfg, validating
\* it, looking the HAProxy container up or signalling it, the index file
\* holds what it held before the call.
C2_MainIndexOnlyAfterReload ==
    \A w \in Workers :
        (service = "main" /\ pc[w] = "failed"
            /\ failedAt[w] \in {"write", "validate", "lookup", "signal"})
            => idxFile = pre

\* C3: when the overlapping rotations of a batch have all completed with
\* success, the persisted index is the index at the start of the batch
\* advanced once per rotation, modulo the pool size.
C3_NoLostAdvance ==
    (Quiescent /\ ~batchFailed)
        => get_current_index(idxFile) = Returned(expected)

\* the part of a rotation from its read of the index (done) to its completed
\* write of the new index
CriticalSection ==
    {"a_gen", "a_reload", "a_save", "a_savewrite",
     "m_save", "m_savewrite", "m_gen", "m_validate", "m_reload"}

\* C4: at most one rotation is between its read of the index and its
\* completed write of the new index.
C4_MutualExclusion ==
    Cardinality({w \in Workers : pc[w] \in CriticalSection}) <= 1

\* the backend list C5 describes: weight 100 at position next, 1 elsewhere
ExpectedBackends(num_tunnels, next) ==
    [j \in 1 .. num_tunnels |->
        [name |-> j, weight |-> IF j = next + 1 THEN 100 ELSE 1]]

\* C5: a successful rotation that starts from a persisted index i in
\* [0, poolSize) computes next = (i + 1) mod poolSize, leaves a haproxy.cfg
\* weighting warp{next+1} 100 and every other backend 1, leaves next in the
\* index file and returns warp{next+1}.
C5_SuccessfulRotate ==
    \A w \in Workers :
        (pc[w] = "done" /\ reply[w].op = "rotate"
            /\ pre.kind = "int" /\ pre.index \in 0 .. cfgN[w] - 1)
            => LET next == (pre.index + 1) % cfgN[w] IN
                 /\ newIdx[w] = next
                 /\ haproxyCfg = CfgOf(ExpectedBackends(cfgN[w], next))
                 /\ idxFile = FileIndex(next)
                 /\ reply[w].status = 200
                 /\ reply[w].name = next + 1

\* C5's example: poolSize 3, index 0 gives weights [1, 100, 1] and index 1
C5_Witness ==
    \E w \in Workers :
        /\ service = "api" /\ pc[w] = "done" /\ reply[w].op = "rotate"
        /\ cfgN[w] = 3 /\ pre = FileIndex(0) /\ idxFile = FileIndex(1)
        /\ haproxyCfg.backends =
              <<Backend(1, 1), Backend(2, 100), Backend(3, 1)>>
        /\ reply[w].name = 2

\* a list of n backends in ascending order, one of weight 100, the rest 1
WellFormed(b, n) ==
    /\ Len(b) = n
    /\ \A j \in 1 .. n : b[j].name = j /\ b[j].weight \in {100, 1}
    /\ Cardinality({j \in 1 .. n : b[j].weight = 100}) = 1

\* C6: for every pool size and every index in range, the backend lists of
\* the two rotations and of setup have poolSize entries in ascending order,
\* exactly one of weight 100 and the others of weight 1; so has every
\* haproxy.cfg the program leaves on disk.
C6_BackendLists ==
    /\ \A n \in PoolSizes : \A i \in 0 .. n - 1 :
          /\ WellFormed(ApiBackends(n, i), n)
          /\ WellFormed(MainBackends(n, i), n)
          /\ ApiBackends(n, i)[i + 1].weight = 100
          /\ MainBackends(n, i)[i + 1].weight = 100
    /\ \A n \in PoolSizes : WellFormed(SetupBackends(n), n)
    /\ haproxyCfg.kind = "cfg" => WellFormed(haproxyCfg.backends, numTunnels)

\* C6's case: a rotation wrote the list of a pool of 3 with index 2
C6_Witness ==
    /\ numTunnels = 3
    /\ service = "api"
    /\ haproxyCfg = CfgOf(ApiBackends(3, 2))
    /\ \E w \in Workers : pc[w] = "a_reload"

\* the states of the index file for which C7 promises the value 0
FailOpenKinds == {"absent", "empty", "garbage", "nonobject", "nokey", "unreadable"}

\* C7: no request ends with the error of an index read, and with the index
\* file absent, empty, cut short, not JSON, not an object, without "index"
\* or unreadable, a listing is answered as for index 0.
C7_ReadFailsOpen ==
    \A w \in Workers :
        /\ failedAt[w] # "index_read"
        /\ (pc[w] = "done" /\ reply[w].op \in {"list", "current"}
               /\ idxFile.kind \in FailOpenKinds)
              => /\ reply[w].status = 200
                 /\ reply[w].active = {1}

\* an index file whose value is no index of the pool
InvalidIndex(f) ==
    \/ f.kind = "nonint"
    \/ f.kind = "int" /\ f.index \notin 0 .. numTunnels - 1

\* C8: with a parseable value in the index file that is no index of the
\* pool, /list and /current answer as for index 0, and a rotation moves to
\* the index after 0.
C8_InvalidIndexReadsZero ==
    \A w \in Workers :
        /\ (pc[w] = "done" /\ reply[w].op \in {"list", "current"}
               /\ InvalidIndex(idxFile))
              => /\ reply[w].status = 200
                 /\ reply[w].active = {1}
        /\ (pc[w] \in {"a_gen", "m_save"} /\ InvalidIndex(pre))
              => newIdx[w] = NextIndex(0, cfgN[w])

\* C9: after any sequence of setup runs and rotations of the deployed API
\* service, the index stored in the index file is an index of the pool of
\* the current configuration.
C9_StoredIndexInRange ==
    (service = "api" /\ Quiescent /\ idxFile.kind = "int")
        => idxFile.index \in 0 .. numTunnels - 1

\* C10: when saving the index fails after haproxy.cfg was written and the
\* reload signal was sent, in a rotation that started from an index of the
\* pool, the request fails, the persisted index reads as before the call,
\* haproxy.cfg and the running HAProxy weight the new index 100, and unless
\* the new index equals the old one the persisted index differs from the
\* weighted one.
C10_SaveFailureKeepsOldIndex ==
    \A w \in Workers :
        (service = "api" /\ pc[w] = "failed"
            /\ failedAt[w] \in {"save_open", "save_write"}
            /\ pre.kind = "int" /\ pre.index \in 0 .. cfgN[w] - 1)
            => /\ reply[w].status = 500
               /\ get_current_index(idxFile) = get_current_index(pre)
               /\ ActiveOf(haproxyCfg) = {newIdx[w]}
               /\ ActiveOf(liveCfg) = {newIdx[w]}
               /\ (get_current_index(pre) # Returned(newIdx[w])
                      => get_current_index(idxFile) # Returned(newIdx[w]))

\* the three apply-stage failures C11 tells apart: haproxy.cfg cannot be
\* written, the HAProxy container is missing, the reload signal is rejected
DistinctCauses == {"write", "lookup", "signal"}

\* C11: two rotations that failed at different ones of these three causes
\* carry error responses that differ in status or in detail.
C11_DistinctApplyErrors ==
    \A w, v \in Workers :
        (pc[w] = "failed" /\ pc[v] = "failed"
            /\ failedAt[w] \in DistinctCauses /\ failedAt[v] \in DistinctCauses
            /\ failedAt[w] # failedAt[v])
            => <<reply[w].status, reply[w].detail>>
                  # <<reply[v].status, reply[v].detail>>

\* C12: a rotation whose rendering or writing of haproxy.cfg failed has sent
\* no reload signal, and a rotation that has sent the reload signal had
\* written haproxy.cfg completely before.
C12_SignalOnlyAfterWrite ==
    \A w \in Workers :
        /\ (pc[w] = "failed" /\ failedAt[w] \in {"render", "write"})
              => signals[w] = 0
        /\ signals[w] > 0 => cfgWrites[w] > 0

\* C12's case: the write of haproxy.cfg broke off and left the file cut
\* short; the request failed without signalling HAProxy
C12_Witness ==
    \E w \in Workers :
        /\ pc[w] = "failed" /\ failedAt[w] = "write"
        /\ haproxyCfg = CfgTruncated
        /\ signals[w] = 0 /\ cfgWrites[w] = 0

\* C13: when the index file was put in place in a state the read accepts
\* and exactly poolSize rotations then succeeded one after the other with
\* no other writer, the index read is the one read before the first.
C13_FullCycleReturns ==
    (cycle.on /\ cycle.count = numTunnels /\ Quiescent)
        => ReadIndex(idxFile) = cycle.start

InvalidConfig == cfgKind # "ok" \/ numTunnels < 1

\* the details of the responses that report a configuration error
ConfigErrors ==
    {"Server configuration error", "config.json not found", "Invalid config.json",
     "Missing key in config.json", "num_tunnels must be an integer >= 1"}

\* C15: with config.json missing, malformed, without a required key or with
\* num_tunnels below 1, every request that loads the configuration ends
\* with a configuration error, and a rotation leaves the index file and
\* haproxy.cfg as they were.
C15_InvalidConfigRejected ==
    \A w \in Workers :
        (pc[w] \in {"done", "failed"} /\ reply[w].op # "none" /\ InvalidConfig)
            => /\ reply[w].status = 500
               /\ reply[w].detail \in ConfigErrors
               /\ reply[w].op = "rotate" => (idxFile = pre /\ cfgWrites[w] = 0)

\* the steps of rotate_tunnel at which the write of the new index has not
\* completed: a_savewrite is inside the write, after open(..., "w")
BeforeIndexWritten == {"a_read", "a_gen", "a_reload", "a_save", "a_savewrite"}

\* C16: when a rotation of the API service that started from an index of
\* the pool dies before its write of the new index has completed, the index
\* read afterwards is the one read before the rotation.
C16_CrashKeepsOldIndex ==
    \A w \in Workers :
        (service = "api" /\ pc[w] = "crashed" /\ failedAt[w] \in BeforeIndexWritten
            /\ pre.kind = "int" /\ pre.index \in 0 .. cfgN[w] - 1)
            => get_current_index(idxFile) = get_current_index(pre)

\* C17: when a rotation of the API service failed at the apply stage on its
\* way from index old to (old + 1) mod poolSize, the next rotation, if it
\* succeeds, targets the same index, leaves a complete haproxy.cfg that
\* weights exactly that backend 100 and persists it: one step from old.
C17_RetryReachesSameIndex ==
    \A w \in Workers :
        (service = "api" /\ pc[w] = "done" /\ reply[w].op = "rotate"
            /\ retry.state = "yes"
            /\ pre.kind = "int" /\ pre.index \in 0 .. cfgN[w] - 1)
            => /\ newIdx[w] = retry.target
               /\ newIdx[w] = (pre.index + 1) % cfgN[w]
               /\ haproxyCfg = CfgOf(ExpectedBackends(cfgN[w], newIdx[w]))
               /\ idxFile = FileIndex(newIdx[w])
               /\ ActiveOf(haproxyCfg) = {idxFile.index}

\* C17's case: in a pool of 3 a rotation from index 1 failed at the apply
\* stage, and its retry succeeded with index 2
C17_Witness ==
    \E w \in Workers :
        /\ service = "api" /\ pc[w] = "done" /\ reply[w].op = "rotate"
        /\ retry = [state |-> "yes", target |-> 2]
        /\ cfgN[w] = 3 /\ pre = FileIndex(1) /\ idxFile = FileIndex(2)

\* situation (a) of a failed rotation: the persisted index reads as before
\* the call and the call made HAProxy load nothing
NothingChanged(w) == ReadIndex(idxFile) = ReadIndex(pre) /\ signals[w] = 0

\* situation (b): HAProxy runs with the new index weighted 100; the
\* persisted index may be the old one
LiveMoved(w) == signals[w] > 0 /\ ActiveOf(liveCfg) = {newIdx[w]}

\* C18: a rotation of either service that started from a stored index and
\* ends with an error response ends in situation (a) or in situation (b),
\* never with the persisted index changed and HAProxy not reloaded.
C18_FailureIsAorB ==
    \A w \in Workers :
        (pc[w] = "failed" /\ reply[w].op = "rotate" /\ pre.kind = "int")
            => (NothingChanged(w) \/ LiveMoved(w))

\* C20: with a valid configuration and a readable index, GET /list succeeds
\* with one entry per position 1..num_tunnels in order, whatever the
\* container lookups give: an entry has status "not_found" when its
\* container is not found, "error" when its lookup raises an API error, and
\* the container's status otherwise.
C20_ListSurvivesLookupFailures ==
    \A w \in Workers :
        (service = "api" /\ pc[w] = "done" /\ reply[w].op = "list"
            /\ ~InvalidConfig /\ ~get_current_index(idxFile).raised)
            => /\ reply[w].status = 200
               /\ Len(reply[w].entries) = numTunnels
               /\ \A i \in 1 .. numTunnels :
                     /\ reply[w].entries[i].name = i
                     /\ reply[w].entries[i].status = containers[i]

\* C20's case: of a pool of 3 one container is missing and the lookup of
\* another raises; the listing has the three entries
C20_Witness ==
    \E w \in Workers :
        /\ service = "api" /\ pc[w] = "done" /\ reply[w].op = "list"
        /\ numTunnels = 3
        /\ containers = <<"running", "not_found", "error">>
        /\ Len(reply[w].entries) = 3
        /\ reply[w].entries[2].status = "not_found"
        /\ reply[w].entries[3].status = "error"

\* C19: a step in which GET /list, GET /current or GET /tunnels/{name}/ip
\* is served, with whatever outcome, leaves the index file and haproxy.cfg
\* as they are; a step of the API service that changes one of them is a
\* step of POST /rotate.
C19_ReadsLeaveFiles ==
    [][/\ \A w \in Workers :
             (pc[w] = "idle" /\ pc'[w] = "done" /\ reply'[w].op \in ReadOps)
                => (idxFile' = idxFile /\ haproxyCfg' = haproxyCfg)
       /\ (service = "api" /\ pc' # pc
              /\ (idxFile' # idxFile \/ haproxyCfg' # haproxyCfg))
             => \E w \in Workers :
                   pc[w] \in {"a_gen", "a_save", "a_savewrite"} /\ pc'[w] # pc[w]
      ]_vars

\* C19's case: the IP of a tunnel could not be fetched (504) after a write
\* of haproxy.cfg had broken off; the index file and the partial
\* haproxy.cfg are as they were
C19_Witness ==
    \E w \in Workers :
        /\ pc[w] = "done" /\ reply[w].op = "ip" /\ reply[w].status = 504
        /\ idxFile = FileIndex(1)
        /\ haproxyCfg = CfgTruncated

\* C21: a run of setup.py writes index 0 to the index file when the file
\* does not exist and leaves an existing index file as it is; a step after
\* which an index file that existed is gone is a step of cleanup.py.
C21_IndexFileLifecycle ==
    [][/\ (\E n \in PoolSizes : Setup(n))
             => idxFile' = (IF idxFile.kind = "absent" THEN FileIndex(0) ELSE idxFile)
       /\ (idxFile.kind # "absent" /\ idxFile'.kind = "absent") => Cleanup
      ]_vars

\* C21's case: setup has run again on a pool of three after a rotation to
\* index 1: haproxy.cfg is the one setup generates, the index file still
\* holds 1
C21_Witness ==
    /\ service = "api"
    /\ AllIdle
    /\ numTunnels = 3
    /\ idxFile = FileIndex(1)
    /\ haproxyCfg = CfgOf(SetupBackends(3))

\* C22: a generation of haproxy.cfg that completes, by either service, in
\* any state and after any other operations, leaves on disk the text given
\* by the configuration and the index it was called with and by nothing
\* else; two generations for the same configuration and index give the
\* same text.
C22_GenerationDeterministic ==
    [][\A w \in Workers :
          (pc[w] \in {"a_gen", "m_gen"} /\ cfgWrites'[w] = cfgWrites[w] + 1)
             => haproxyCfg' = CfgOf(IF service = "api"
                                    THEN ApiBackends(cfgN[w], newIdx[w])
                                    ELSE MainBackends(cfgN[w], newIdx[w]))
      ]_vars

\* C22's case: a rotation to index 2 of three failed at the apply stage and
\* the next one has generated haproxy.cfg for index 2 again
C22_Witness ==
    \E w \in Workers :
        /\ service = "api"
        /\ pc[w] = "a_reload" /\ cfgWrites[w] = 1
        /\ retry.state = "yes" /\ retry.target = 2 /\ newIdx[w] = 2
        /\ cfgN[w] = 3
        /\ haproxyCfg = CfgOf(ApiBackends(3, 2))

\* C23: when POST /rotate of the API service has answered "rotated" on a
\* valid configuration, and GET /current right before it named an active
\* tunnel, GET /current now names an active tunnel with another name (the
\* sequence check_api of the health check runs).
C23_RotationChangesCurrentName ==
    \A w \in Workers :
        (/\ service = "api" /\ cfgKind = "ok" /\ numTunnels \in PoolSizes
         /\ pc[w] = "done" /\ reply[w].op = "rotate" /\ reply[w].status = 200
         /\ CurrentReply(pre).status = 200 /\ CurrentReply(pre).active # {})
            => /\ CurrentReply(idxFile).status = 200
               /\ CurrentReply(idxFile).active # {}
               /\ CurrentReply(idxFile).name # CurrentReply(pre).name

\* C24: when the overlapping rotations of a batch served by the API
\* service have all completed with success, the one backend weighted 100
\* in haproxy.cfg is the backend at the index the index file holds.
C24_BatchLeavesCfgAtIndex ==
    (/\ service = "api" /\ Quiescent /\ ~batchFailed
     /\ \E w \in Workers : pc[w] = "done" /\ reply[w].op = "rotate")
        => /\ idxFile.kind = "int"
           /\ haproxyCfg.kind = "cfg"
           /\ ActiveOf(haproxyCfg) = {idxFile.index}

\* C25: while a rotation of the API service that read index i is saving
\* index k (it has opened the index file for writing and not yet written),
\* and the file held i until then, another rotation that reads the index
\* now goes on with i or k, and a GET /list served now marks the tunnel of
\* i or of k active.
C25_OverlappingReadOldOrNew ==
    [][\A w, v \in Workers :
          (/\ v # w /\ service = "api"
           /\ pc[w] = "a_savewrite" /\ idxFile.kind = "empty"
           /\ pre.kind = "int" /\ pre.index = cur[w] /\ ~batchFailed)
             => /\ (pc[v] = "a_read" /\ pc'[v] = "a_gen")
                      => cur'[v] \in {cur[w], newIdx[w]}
                /\ (pc[v] = "idle" /\ pc'[v] = "done" /\ reply'[v].op = "list"
                       /\ reply'[v].status = 200)
                      => reply'[v].active \subseteq {cur[w] + 1, newIdx[w] + 1}
      ]_vars

\* haproxy.cfg weights exactly the backend at the persisted index with 100
CfgAtIndex(f, c) ==
    f.kind = "int" /\ c.kind = "cfg" /\ ActiveOf(c) = {f.index}

\* C26: a run of setup.py, the first one (no index file) or one that
\* follows successful rotations (haproxy.cfg weights the backend at the
\* persisted index), leaves a haproxy.cfg that weights the backend at the
\* persisted index with 100.
C26_SetupLeavesCfgAtIndex ==
    [][((\E n \in PoolSizes : Setup(n))
          /\ (idxFile.kind = "absent" \/ CfgAtIndex(idxFile, haproxyCfg)))
         => CfgAtIndex(idxFile', haproxyCfg')
      ]_vars

\* C27: on a valid configuration and whatever the index file holds, GET
\* /list of the API service is answered with exactly one tunnel marked
\* active, and GET /current with a tunnel of the pool, marked active, that
\* is the tunnel /list marks.
C27_OneActiveTunnelOfPool ==
    \A w \in Workers :
        (service = "api" /\ cfgKind = "ok" /\ numTunnels \in PoolSizes /\ pc[w] = "done")
           => /\ reply[w].op = "list"
                    => /\ reply[w].status = 200
                       /\ Cardinality(reply[w].active) = 1
              /\ reply[w].op = "current"
                    => /\ reply[w].status = 200
                       /\ reply[w].name \in 1 .. numTunnels
                       /\ reply[w].active = {reply[w].name}
                       /\ Reported(idxFile) = {reply[w].name}

\* C28: for every tunnel warp<i> of the pool, the directAccessPort /list
\* and /current of the API service report for it, and the port GET
\* /tunnels/warp<i>/ip probes, is the host port setup.py published for
\* warp<i> from the same warp_host_port_base.
C28_ReportedPortIsSetupPort ==
    \A w \in Workers :
        (service = "api" /\ cfgKind = "ok" /\ pc[w] = "done" /\ reply[w].status = 200)
           => /\ reply[w].op \in {"list", "current"}
                    => \A k \in 1 .. Len(reply[w].entries) :
                          reply[w].entries[k].name \in 1 .. numTunnels
                             => reply[w].entries[k].directAccessPort
                                   = SetupHostPort(WarpHostPortBase,
                                                   reply[w].entries[k].name)
              /\ reply[w].op = "ip"
                    => \A i \in 1 .. numTunnels :
                          IpProbePort(WarpHostPortBase, i)
                             = SetupHostPort(WarpHostPortBase, i)

\* a rotation writes haproxy.cfg at most once, signals HAProxy at most once,
\* and after its failure does nothing but hand the response over
OnceAndStop(w) ==
    /\ cfgWrites'[w] <= 1
    /\ signals'[w] <= 1
    /\ pc[w] = "failed"
          => /\ pc'[w] \in {"failed", "idle"}
             /\ files' = files

\* C29: within one rotation haproxy.cfg is written at most once, HAProxy is
\* signalled at most once, a failure ends the call, and no step is run a
\* second time: in particular the validation of the written file is not
\* attempted again.
C29_NoRetryInCall ==
    [][\A w \in Workers :
          /\ OnceAndStop(w)
          /\ ~(pc[w] = "m_validate" /\ pc'[w] = "m_validate"
                  /\ attempt'[w] = attempt[w] + 1)
      ]_vars

\* C30: in rotate of src/main.py HAProxy has been signalled only when the
\* validation of the written haproxy.cfg had passed, and when the
\* validation has failed the call has ended with an error, without a
\* signal, and with the index file holding what it held before the call.
C30_ValidationGuardsReload ==
    \A w \in Workers :
        service = "main"
           => /\ signals[w] > 0 => pc[w] = "done"
              /\ (pc[w] = "failed" /\ failedAt[w] = "validate")
                    => /\ reply[w].status = 500
                       /\ signals[w] = 0
                       /\ idxFile = pre

\* C31: a run of cleanup.py, whether or not it stopped the containers,
\* leaves no index file, no haproxy.cfg and no docker-compose.yml; a read
\* of the index then gives 0, and the setup run that follows starts from
\* index 0 with the haproxy.cfg it generates for warp1.
C31_CleanupRemovesGeneratedFiles ==
    [][Cleanup
         => /\ idxFile' = FileAbsent
            /\ haproxyCfg' = CfgAbsent
            /\ composeFile' = "absent"
            /\ ReadIndex(idxFile') = Returned(0)
            /\ InitialIndexFile(idxFile') = FileIndex(0)
      ]_vars

====
